---- MODULE Spec2Model ----
(***************************************************************************)
(* A model of the peer-to-peer file sharing programs of the repository:    *)
(*   src/p2pshare.go               (discovery only, sendFile is a stub)     *)
(*   src/network-monitor/main.go   lines 165-418 (discovery that answers    *)
(*                                 probes, TCP sendFile / receiveFile)      *)
(* and of the network monitor, src/network-monitor/main.go lines 1-163.     *)
(*                                                                         *)
(* Addresses.  "X" and "Y" are two hosts that run the program, "Z" is a    *)
(* host of the same subnet whose software is not modelled (it may send any  *)
(* datagram).  The string "X" stands for addr.String() of X's discovery     *)
(* socket, "ipX:9876".                                                      *)
(*                                                                         *)
(* Time.  The code sets lower bounds only (time.Sleep(2 * time.Second), a   *)
(* loop that runs until 2 s have passed), and a goroutine may be delayed    *)
(* for any time, so every order of the steps below can happen and the       *)
(* model keeps no clock while discovery runs.  Once a host has closed its   *)
(* socket, quiet[i] counts the 2 s windows that have passed since.          *)
(***************************************************************************)
EXTENDS Integers, Sequences, FiniteSets, TLC

Inst == {"X", "Y"}
Foreign == "Z"
Addr == Inst \cup {Foreign}

DISCOVER_PEER == "DISCOVER_PEER"
PEER_RESPONSE == "PEER_RESPONSE"
NOISE == "HELLO"
Payload == {DISCOVER_PEER, PEER_RESPONSE, NOISE}

ErrBind == "Error: listen udp4 :9876: bind: address already in use"
ErrBcast == "Error sending broadcast: network is unreachable"

\* the two programs of the repository that hold a discoverPeers
Variants == {"p2pshare", "main"}

\* the hosts Z sends to: X and Y run the same code, what Z can do to one it
\* can do to the other
NoiseTo == {"X"}

\* windows counted after a socket was closed
MaxQuiet == 2
\* datagrams host Z sends at most
MaxNoise == 2
\* sendFile goroutines X starts at most
MaxSends == 2
\* bytes a file holds at most; a byte stands for one chunk of io.Copy
MaxFileLen == 2

\* main.go line 94: the points of history the monitor keeps
HistoryLimit == 20
\* bytes the host's interface counts at most
MaxTraffic == 2
\* networkStatsMsg handled after the history is full, at most
MaxDropped == 2
\* commands of one kind (fetch, timer) pending at most
MaxPending == 2

VARIABLES
    variant,      \* which program each host runs
    proc,         \* the process: "off", "running", "crashed"
    dpc,          \* where discoverPeers is
    conn,         \* the UDP socket: "none", "open", "closed"
    buf,          \* datagrams in the socket's receive buffer
    peersMap,     \* discoverPeers' local map: entries held per key
    peerList,     \* the slice discoverPeers returns
    gpc,          \* the collector goroutine: "none", "run"
    m,            \* the bubbletea model of each host
    probesSent,   \* history: broadcasts sent by each host
    heard,        \* history: per sender, the datagrams that upserted it before
                  \*          the snapshot loop began
    quiet,        \* history: 2 s windows passed since the socket was closed
    noiseSent     \* history: datagrams host Z has sent

\* The transfer: sendFile sessions of host X towards the data port of host Y
VARIABLES
    fileData,     \* the bytes of each file of X's working directory
    xmain,        \* X's process: "run" (p.Run() is running), "exited"
    ymain,        \* Y's main: "run", "tail" (p.Run() has returned and
                  \*           go startServer() is done), "exited"
    listener,     \* Y's startServer and its listener on :9000: "none",
                  \*           "starting", "open", "failed", "closed"
    send,         \* the sendFile goroutines X has started, by session
    wire,         \* the TCP connection of each session: "none", "est",
                  \*           "fin" (closed by the sender, data may wait),
                  \*           "rclosed" (closed by the receiver), "rst"
    recv,         \* Y's side of each connection and its receiveFile goroutine
    rfile,        \* Y's disk: the bytes of "received_file"
    faulted       \* history: sessions that met an I/O fault or a process exit

dvars == <<variant, proc, dpc, conn, buf, peersMap, peerList, gpc,
           probesSent, heard, quiet, noiseSent>>

tvars == <<fileData, xmain, ymain, listener, send, wire, recv, rfile, faulted>>

\* The network monitor
VARIABLES
    monitor,      \* its bubbletea Model
    mstate,       \* its program: "run", "quit"
    counters,     \* the host's cumulative I/O counters
    fetchIf,      \* fetchInterfaces commands started, result not yet handled
    fetchStats,   \* fetchNetworkStats commands started, result not yet handled
    timers,       \* tea.Tick timers outstanding
    arrivals      \* history: the totals of the networkStatsMsg handled so far

nvars == <<monitor, mstate, counters, fetchIf, fetchStats, timers, arrivals>>

vars == <<dvars, m, tvars, nvars>>

----------------------------------------------------------------------------
(* Helpers *)

Range(s) == {s[k] : k \in 1..Len(s)}

NoDup(s) == \A a, b \in 1..Len(s) : a # b => s[a] # s[b]

Occurs(s, x) == Cardinality({k \in 1..Len(s) : s[k] = x})

InsertAt(s, pos, x) == SubSeq(s, 1, pos) \o <<x>> \o SubSeq(s, pos + 1, Len(s))

RECURSIVE SumOver(_, _)
SumOver(f, S) ==
    IF S = {} THEN 0
    ELSE LET x == CHOOSE y \in S : TRUE IN f[x] + SumOver(f, S \ {x})

\* make(map[string]struct{})
EmptyMap == [a \in Addr |-> 0]

\* a map insertion that adds an entry even when the key is there
MapInsertAppend(mp, k) == [mp EXCEPT ![k] = @ + 1]

\* peers[addr.String()] = struct{}{}
MapInsert(mp, k) == [mp EXCEPT ![k] = 1]

\* for peer := range peers { peerList = append(peerList, peer) }: every entry
\* once, in no fixed order
RangeOrders(mp) ==
    {s \in [1..SumOver(mp, Addr) -> Addr] : \A a \in Addr : Occurs(s, a) = mp[a]}

----------------------------------------------------------------------------
(* The bubbletea model *)

\* initialModel(); files is what getFiles() returned; a status is the
\* sequence of the strings it is concatenated from
initialModel(files) ==
    [peers |-> <<>>, files |-> files, selectedPeer |-> 0, selectedFile |-> 0,
     stage |-> "peers", status |-> <<"Searching for peers...">>]

\* Update, case []string
UpdatePeers(v, mm, msg) ==
    IF Len(msg) = 0
    THEN [mm EXCEPT !.status = <<"No peers found.">>]
    ELSE IF v = "main"
         THEN [mm EXCEPT !.peers = msg, !.status = <<"Peers found! Select one.">>,
                         !.selectedPeer = 0]
         ELSE [mm EXCEPT !.peers = msg, !.status = <<"Peers found! Select one.">>]

----------------------------------------------------------------------------
(* The network *)

\* can host j's socket take a datagram
Bound(j) == proc[j] = "running" /\ conn[j] = "open"

\* the receive buffers after a datagram d was sent to the hosts of `to':
\* a host with no open socket on the port drops it
Delivered(to, d) ==
    [j \in Inst |-> IF j \in to /\ Bound(j) THEN buf[j] \cup {d} ELSE buf[j]]

----------------------------------------------------------------------------
(* Files, connections and sessions of the transfer *)

Bytes == {"a", "b"}
\* a byte of a hole the file system fills in
Hole == "0"
Files == {"f1", "f2"}
Contents == UNION {[1..n -> Bytes] : n \in 0..MaxFileLen}
Sessions == 1..MaxSends

NoSend == [pc |-> "none", file |-> "", peer |-> "", pos |-> 0]
NoWire == [state |-> "none", data |-> <<>>]
NoRecv == [pc |-> "none", off |-> 0]

\* nothing of the transfer has happened
TransferIdle ==
    /\ fileData = [f \in Files |-> <<>>]
    /\ xmain = "run"
    /\ ymain = "run"
    /\ listener = "none"
    /\ send = [k \in Sessions |-> NoSend]
    /\ wire = [k \in Sessions |-> NoWire]
    /\ recv = [k \in Sessions |-> NoRecv]
    /\ rfile = <<>>
    /\ faulted = {}

----------------------------------------------------------------------------
(* The network monitor: its Model and the commands of Init *)

\* the Model that main hands to tea.NewProgram: Model{}
NewMonitor ==
    [interfaces |-> <<>>, networkStats |-> <<>>, historySent |-> <<>>,
     historyRecv |-> <<>>, latestSent |-> 0, latestRecv |-> 0,
     err |-> "nil", lastUpdate |-> "zero"]

\* Model.Init: tea.Batch(fetchInterfaces, fetchNetworkStats, tickCmd())
MonitorStarted ==
    /\ monitor = NewMonitor
    /\ mstate = "run"
    /\ counters = [BytesSent |-> 0, BytesRecv |-> 0]
    /\ fetchIf = 1
    /\ fetchStats = 1
    /\ timers = 1
    /\ arrivals = <<>>

----------------------------------------------------------------------------
Init ==
    /\ variant \in [Inst -> Variants]
    /\ proc = [i \in Inst |-> "off"]
    /\ dpc = [i \in Inst |-> "idle"]
    /\ conn = [i \in Inst |-> "none"]
    /\ buf = [i \in Inst |-> {}]
    /\ peersMap = [i \in Inst |-> EmptyMap]
    /\ peerList = [i \in Inst |-> <<>>]
    /\ gpc = [i \in Inst |-> "none"]
    /\ m = [i \in Inst |-> initialModel(<<>>)]
    /\ probesSent = [i \in Inst |-> 0]
    /\ heard = [i \in Inst |-> [a \in Addr |-> 0]]
    /\ quiet = [i \in Inst |-> 0]
    /\ noiseSent = 0
    /\ TransferIdle
    /\ MonitorStarted

\* main: tea.NewProgram(initialModel()); Init returns discoverPeers
Start(i) ==
    /\ proc[i] = "off"
    /\ proc' = [proc EXCEPT ![i] = "running"]
    /\ dpc' = [dpc EXCEPT ![i] = "listen"]
    /\ UNCHANGED <<variant, conn, buf, peersMap, peerList, gpc, m,
                   probesSent, heard, quiet, noiseSent, tvars, nvars>>

\* net.ListenPacket("udp4", ":9876") succeeds
ListenOK(i) ==
    /\ proc[i] = "running" /\ dpc[i] = "listen"
    /\ conn' = [conn EXCEPT ![i] = "open"]
    /\ dpc' = [dpc EXCEPT ![i] = "bcast"]
    /\ UNCHANGED <<variant, proc, buf, peersMap, peerList, gpc, m,
                   probesSent, heard, quiet, noiseSent, tvars, nvars>>

\* net.ListenPacket fails: return []string{"Error: " + err.Error()}
ListenFail(i) ==
    /\ proc[i] = "running" /\ dpc[i] = "listen"
    /\ peerList' = [peerList EXCEPT ![i] = <<ErrBind>>]
    /\ dpc' = [dpc EXCEPT ![i] = "ret"]
    /\ UNCHANGED <<variant, proc, conn, buf, peersMap, gpc, m,
                   probesSent, heard, quiet, noiseSent, tvars, nvars>>

\* conn.WriteTo([]byte("DISCOVER_PEER"), broadcast) succeeds; the broadcast
\* reaches every bound socket of the subnet, the sender's own included
BcastOK(i) ==
    /\ proc[i] = "running" /\ dpc[i] = "bcast"
    /\ buf' = Delivered(Inst, [src |-> i, payload |-> DISCOVER_PEER])
    /\ probesSent' = [probesSent EXCEPT ![i] = @ + 1]
    /\ dpc' = [dpc EXCEPT ![i] = IF variant[i] = "main" THEN "spawn" ELSE "loop"]
    /\ UNCHANGED <<variant, proc, conn, peersMap, peerList, gpc, m,
                   heard, quiet, noiseSent, tvars, nvars>>

\* conn.WriteTo fails: return []string{"Error sending broadcast: ..."}, and
\* the deferred conn.Close() runs
BcastFail(i) ==
    /\ proc[i] = "running" /\ dpc[i] = "bcast"
    /\ peerList' = [peerList EXCEPT ![i] = <<ErrBcast>>]
    /\ conn' = [conn EXCEPT ![i] = "closed"]
    /\ buf' = [buf EXCEPT ![i] = {}]
    /\ dpc' = [dpc EXCEPT ![i] = "ret"]
    /\ UNCHANGED <<variant, proc, peersMap, gpc, m,
                   probesSent, heard, quiet, noiseSent, tvars, nvars>>

\* go func() { for { ... } }(); time.Sleep(2 * time.Second) begins
Spawn(i) ==
    /\ proc[i] = "running" /\ dpc[i] = "spawn"
    /\ gpc' = [gpc EXCEPT ![i] = "run"]
    /\ dpc' = [dpc EXCEPT ![i] = "sleep"]
    /\ UNCHANGED <<variant, proc, conn, buf, peersMap, peerList, m,
                   probesSent, heard, quiet, noiseSent, tvars, nvars>>

\* the collector goroutine takes a "DISCOVER_PEER":
\* conn.WriteTo([]byte("PEER_RESPONSE"), addr)
CollectProbe(i) ==
    /\ proc[i] = "running" /\ gpc[i] = "run" /\ conn[i] = "open"
    /\ \E d \in buf[i] :
        /\ d.payload = DISCOVER_PEER
        /\ LET r == [src |-> i, payload |-> PEER_RESPONSE]
               b == [buf EXCEPT ![i] = @ \ {d}] IN
            buf' = [j \in Inst |-> IF j = d.src /\ Bound(j) THEN b[j] \cup {r} ELSE b[j]]
    /\ UNCHANGED <<variant, proc, dpc, conn, peersMap, peerList, gpc, m,
                   probesSent, heard, quiet, noiseSent, tvars, nvars>>

\* the collector goroutine takes a "PEER_RESPONSE" while discoverPeers
\* sleeps: peers[addr.String()] = struct{}{}
CollectResponse(i) ==
    /\ proc[i] = "running" /\ gpc[i] = "run" /\ conn[i] = "open"
    /\ dpc[i] = "sleep"
    /\ \E d \in buf[i] :
        /\ d.payload = PEER_RESPONSE
        /\ buf' = [buf EXCEPT ![i] = @ \ {d}]
        /\ peersMap' = [peersMap EXCEPT ![i] = MapInsert(@, d.src)]
        /\ heard' = [heard EXCEPT ![i][d.src] = @ + 1]
    /\ UNCHANGED <<variant, proc, dpc, conn, peerList, gpc, m,
                   probesSent, quiet, noiseSent, tvars, nvars>>

\* the collector goroutine takes a "PEER_RESPONSE" while discoverPeers ranges
\* over the map: an unsynchronised write during the iteration.  An entry the
\* write adds is produced by the iteration, at any place, or skipped.
CollectResponseRacing(i) ==
    /\ proc[i] = "running" /\ gpc[i] = "run" /\ conn[i] = "open"
    /\ dpc[i] = "iter"
    /\ \E d \in buf[i] :
        /\ d.payload = PEER_RESPONSE
        /\ buf' = [buf EXCEPT ![i] = @ \ {d}]
        /\ peersMap' = [peersMap EXCEPT ![i] = MapInsert(@, d.src)]
        /\ \/ UNCHANGED peerList
           \/ /\ peersMap'[i][d.src] > peersMap[i][d.src]
              /\ \E pos \in 0..Len(peerList[i]) :
                    peerList' = [peerList EXCEPT ![i] = InsertAt(@, pos, d.src)]
    /\ UNCHANGED <<variant, proc, dpc, conn, gpc, m,
                   probesSent, heard, quiet, noiseSent, tvars, nvars>>

\* the same race, detected by the runtime:
\* "fatal error: concurrent map iteration and map write" ends the process
CollectResponseFatal(i) ==
    /\ proc[i] = "running" /\ gpc[i] = "run" /\ conn[i] = "open"
    /\ dpc[i] = "iter"
    /\ \E d \in buf[i] : d.payload = PEER_RESPONSE
    /\ proc' = [proc EXCEPT ![i] = "crashed"]
    /\ conn' = [conn EXCEPT ![i] = "closed"]
    /\ gpc' = [gpc EXCEPT ![i] = "none"]
    /\ buf' = [buf EXCEPT ![i] = {}]
    /\ UNCHANGED <<variant, dpc, peersMap, peerList, m,
                   probesSent, heard, quiet, noiseSent, tvars, nvars>>

\* the collector goroutine takes any other payload: dropped
CollectOther(i) ==
    /\ proc[i] = "running" /\ gpc[i] = "run" /\ conn[i] = "open"
    /\ \E d \in buf[i] :
        /\ d.payload \notin {DISCOVER_PEER, PEER_RESPONSE}
        /\ buf' = [buf EXCEPT ![i] = @ \ {d}]
    /\ UNCHANGED <<variant, proc, dpc, conn, peersMap, peerList, gpc, m,
                   probesSent, heard, quiet, noiseSent, tvars, nvars>>

\* time.Sleep(2 * time.Second) returns; for peer := range peers runs
SleepDone(i) ==
    /\ proc[i] = "running" /\ dpc[i] = "sleep"
    /\ dpc' = [dpc EXCEPT ![i] = "iter"]
    /\ \E s \in RangeOrders(peersMap[i]) : peerList' = [peerList EXCEPT ![i] = s]
    /\ UNCHANGED <<variant, proc, conn, buf, peersMap, gpc, m,
                   probesSent, heard, quiet, noiseSent, tvars, nvars>>

\* p2pshare.go: for time.Now().Before(timeout) holds;
\* conn.SetReadDeadline(time.Now().Add(500 * time.Millisecond))
LoopEnter(i) ==
    /\ proc[i] = "running" /\ dpc[i] = "loop"
    /\ dpc' = [dpc EXCEPT ![i] = "read"]
    /\ UNCHANGED <<variant, proc, conn, buf, peersMap, peerList, gpc, m,
                   probesSent, heard, quiet, noiseSent, tvars, nvars>>

\* p2pshare.go: time.Now().Before(timeout) fails, 2 s have passed;
\* for peer := range peers runs
LoopExit(i) ==
    /\ proc[i] = "running" /\ dpc[i] = "loop"
    /\ dpc' = [dpc EXCEPT ![i] = "iter"]
    /\ \E s \in RangeOrders(peersMap[i]) : peerList' = [peerList EXCEPT ![i] = s]
    /\ UNCHANGED <<variant, proc, conn, buf, peersMap, gpc, m,
                   probesSent, heard, quiet, noiseSent, tvars, nvars>>

\* p2pshare.go: conn.ReadFrom(buf) returns a datagram, whatever its payload:
\* peers[addr.String()] = struct{}{}
ReadOK(i) ==
    /\ proc[i] = "running" /\ dpc[i] = "read" /\ conn[i] = "open"
    /\ \E d \in buf[i] :
        /\ buf' = [buf EXCEPT ![i] = @ \ {d}]
        /\ peersMap' = [peersMap EXCEPT ![i] = MapInsert(@, d.src)]
        /\ heard' = [heard EXCEPT ![i][d.src] = @ + 1]
    /\ dpc' = [dpc EXCEPT ![i] = "loop"]
    /\ UNCHANGED <<variant, proc, conn, peerList, gpc, m,
                   probesSent, quiet, noiseSent, tvars, nvars>>

\* p2pshare.go: the 500 ms read deadline passes with nothing read, err != nil
ReadTimeout(i) ==
    /\ proc[i] = "running" /\ dpc[i] = "read"
    /\ buf[i] = {}
    /\ dpc' = [dpc EXCEPT ![i] = "loop"]
    /\ UNCHANGED <<variant, proc, conn, buf, peersMap, peerList, gpc, m,
                   probesSent, heard, quiet, noiseSent, tvars, nvars>>

\* return peerList; the deferred conn.Close() runs
Return(i) ==
    /\ proc[i] = "running" /\ dpc[i] = "iter"
    /\ dpc' = [dpc EXCEPT ![i] = "ret"]
    /\ conn' = [conn EXCEPT ![i] = "closed"]
    /\ buf' = [buf EXCEPT ![i] = {}]
    /\ UNCHANGED <<variant, proc, peersMap, peerList, gpc, m,
                   probesSent, heard, quiet, noiseSent, tvars, nvars>>

\* bubbletea hands the command's result to Update
Deliver(i) ==
    /\ proc[i] = "running" /\ dpc[i] = "ret"
    /\ dpc' = [dpc EXCEPT ![i] = "done"]
    /\ m' = [m EXCEPT ![i] = UpdatePeers(variant[i], @, peerList[i])]
    /\ UNCHANGED <<variant, proc, conn, buf, peersMap, peerList, gpc,
                   probesSent, heard, quiet, noiseSent, tvars, nvars>>

\* 2 s pass on a host whose discoverPeers has returned
Elapse(i) ==
    /\ proc[i] = "running" /\ dpc[i] = "done"
    /\ quiet[i] < MaxQuiet
    /\ quiet' = [quiet EXCEPT ![i] = @ + 1]
    /\ UNCHANGED <<variant, proc, dpc, conn, buf, peersMap, peerList, gpc, m,
                   probesSent, heard, noiseSent, tvars, nvars>>

\* host Z sends a datagram to host i's discovery port while the socket is
\* open (sent at another time it is dropped and changes nothing)
Noise(i, p) ==
    /\ noiseSent < MaxNoise
    /\ i \in NoiseTo /\ Bound(i)
    /\ [src |-> Foreign, payload |-> p] \notin buf[i]
    /\ noiseSent' = noiseSent + 1
    /\ buf' = Delivered({i}, [src |-> Foreign, payload |-> p])
    /\ UNCHANGED <<variant, proc, dpc, conn, peersMap, peerList, gpc, m,
                   probesSent, heard, quiet, tvars, nvars>>

Next ==
    \E i \in Inst :
        \/ Start(i) \/ ListenOK(i) \/ ListenFail(i) \/ BcastOK(i) \/ BcastFail(i)
        \/ Spawn(i) \/ CollectProbe(i) \/ CollectResponse(i)
        \/ CollectResponseRacing(i) \/ CollectResponseFatal(i) \/ CollectOther(i)
        \/ SleepDone(i) \/ LoopEnter(i) \/ LoopExit(i) \/ ReadOK(i) \/ ReadTimeout(i)
        \/ Return(i) \/ Deliver(i) \/ Elapse(i)
        \/ \E p \in Payload : Noise(i, p)

Spec == Init /\ [][Next]_vars

----------------------------------------------------------------------------
(* The menu of main.go: Update, case tea.KeyMsg *)

Keys == {"down", "up", "enter"}

\* case tea.KeyDown
UpdateKeyDown(mm) ==
    IF mm.stage = "peers" /\ Len(mm.peers) > 0 /\ mm.selectedPeer < Len(mm.peers) - 1
    THEN [mm EXCEPT !.selectedPeer = @ + 1]
    ELSE IF mm.stage = "files" /\ Len(mm.files) > 0 /\ mm.selectedFile < Len(mm.files) - 1
    THEN [mm EXCEPT !.selectedFile = @ + 1]
    ELSE mm

\* case tea.KeyUp
UpdateKeyUp(mm) ==
    IF mm.stage = "peers" /\ mm.selectedPeer > 0
    THEN [mm EXCEPT !.selectedPeer = @ - 1]
    ELSE IF mm.stage = "files" /\ mm.selectedFile > 0
    THEN [mm EXCEPT !.selectedFile = @ - 1]
    ELSE mm

\* case tea.KeyEnter, second branch: does Enter start a sendFile goroutine
StartsSend(mm) ==
    /\ ~(mm.stage = "peers" /\ Len(mm.peers) > 0)
    /\ mm.stage = "files" /\ Len(mm.files) > 0

\* m.files[m.selectedFile] and m.peers[m.selectedPeer] do not panic
IndicesInRange(mm) ==
    /\ 0 <= mm.selectedFile /\ mm.selectedFile < Len(mm.files)
    /\ 0 <= mm.selectedPeer /\ mm.selectedPeer < Len(mm.peers)

\* case tea.KeyEnter (slices are indexed from 0 in Go, sequences from 1 here)
UpdateKeyEnter(mm) ==
    IF mm.stage = "peers" /\ Len(mm.peers) > 0
    THEN [mm EXCEPT !.status = <<"Select a file to send">>, !.stage = "files",
                    !.selectedFile = 0]
    ELSE IF StartsSend(mm)
    THEN [mm EXCEPT !.status = <<"Sending file: ", mm.files[mm.selectedFile + 1],
                                 " to ", mm.peers[mm.selectedPeer + 1]>>]
    ELSE mm

----------------------------------------------------------------------------
(* sendFile and receiveFile *)

\* net.SplitHostPort(peer) succeeds on "host:port", not on an error text
SplitHostPortOK(peer) == peer \in Addr

\* a session whose sendFile is between its start and its return
Sending(k) == send[k].pc \in {"split", "dial", "open", "copy"}

\* a copy that reads the first chunk of the file again at every offset
NextChunkStuck(data, pos) == data[1]

\* io.Copy, sender: the chunk file.Read yields at offset pos
NextChunk(data, pos) == data[pos + 1]

\* file.Write(b) on a descriptor whose offset is off: bytes between the end
\* of the file and off read as zero
WriteAt(f, off, b) ==
    IF off < Len(f) THEN [f EXCEPT ![off + 1] = b]
    ELSE f \o [n \in 1..(off - Len(f)) |-> Hole] \o <<b>>

\* the directory X offers: f1 of any content, f2 of one byte
FileSets == {[f \in Files |-> IF f = "f1" THEN c ELSE <<"b">>] : c \in Contents}

\* the discovery results Update may have been given before a transfer
TransferPeerLists == {<<"Y">>, <<ErrBind>>}

\* the state in which the user of X picks a peer and a file: X's discovery
\* has returned msg and Update has stored it, Y's UI is up
TInit ==
    /\ variant = [i \in Inst |-> "main"]
    /\ proc = [i \in Inst |-> "running"]
    /\ dpc = [i \in Inst |-> "done"]
    /\ conn = [i \in Inst |-> "closed"]
    /\ buf = [i \in Inst |-> {}]
    /\ peersMap = [i \in Inst |-> EmptyMap]
    /\ gpc = [i \in Inst |-> "run"]
    /\ probesSent = [i \in Inst |-> 1]
    /\ heard = [i \in Inst |-> [a \in Addr |-> 0]]
    /\ quiet = [i \in Inst |-> 0]
    /\ noiseSent = 0
    /\ \E msg \in TransferPeerLists :
        /\ peerList = [i \in Inst |-> IF i = "X" THEN msg ELSE <<>>]
        /\ m = [i \in Inst |->
                  IF i = "X" THEN UpdatePeers("main", initialModel(<<"f1", "f2">>), msg)
                  ELSE UpdatePeers("main", initialModel(<<>>), <<>>)]
    /\ fileData \in FileSets
    /\ xmain = "run"
    /\ ymain = "run"
    /\ listener = "none"
    /\ send = [k \in Sessions |-> NoSend]
    /\ wire = [k \in Sessions |-> NoWire]
    /\ recv = [k \in Sessions |-> NoRecv]
    /\ rfile = <<>>
    /\ faulted = {}
    /\ MonitorStarted

\* X's user presses a key other than Enter in the file stage: Update
Key(key) ==
    /\ xmain = "run"
    /\ ~(key = "enter" /\ StartsSend(m["X"]))
    /\ m' = [m EXCEPT !["X"] = CASE key = "down" -> UpdateKeyDown(@)
                                 [] key = "up" -> UpdateKeyUp(@)
                                 [] key = "enter" -> UpdateKeyEnter(@)]
    /\ m' # m
    /\ UNCHANGED <<dvars, nvars, tvars>>

\* X's user presses Enter in the file stage:
\* go sendFile(m.files[m.selectedFile], m.peers[m.selectedPeer])
KeyEnterSend ==
    /\ xmain = "run"
    /\ variant["X"] = "main"
    /\ StartsSend(m["X"])
    /\ IndicesInRange(m["X"])
    /\ \E k \in Sessions :
        /\ send[k].pc = "none"
        /\ \A j \in Sessions : j < k => send[j].pc # "none"
        /\ send' = [send EXCEPT ![k] =
              [pc |-> "split",
               file |-> m["X"].files[m["X"].selectedFile + 1],
               peer |-> m["X"].peers[m["X"].selectedPeer + 1],
               pos |-> 0]]
    /\ m' = [m EXCEPT !["X"] = UpdateKeyEnter(@)]
    /\ UNCHANGED <<dvars, nvars, fileData, xmain, ymain, listener, wire, recv, rfile, faulted>>

\* X's user presses Esc: tea.Quit, p.Run() returns, main returns and the
\* process ends; the kernel closes the sockets of the sendFile goroutines
XQuit ==
    /\ xmain = "run"
    /\ xmain' = "exited"
    /\ send' = [k \in Sessions |-> IF Sending(k) THEN [send[k] EXCEPT !.pc = "killed"]
                                   ELSE send[k]]
    /\ wire' = [k \in Sessions |-> IF Sending(k) /\ wire[k].state = "est"
                                   THEN [wire[k] EXCEPT !.state = "fin"] ELSE wire[k]]
    /\ faulted' = faulted \cup {k \in Sessions : Sending(k)}
    /\ UNCHANGED <<dvars, nvars, m, fileData, ymain, listener, recv, rfile>>

\* host, _, err := net.SplitHostPort(peer)
SendSplit(k) ==
    /\ xmain = "run" /\ send[k].pc = "split"
    /\ send' = [send EXCEPT ![k].pc = IF SplitHostPortOK(send[k].peer) THEN "dial"
                                      ELSE "failed"]
    /\ UNCHANGED <<dvars, nvars, m, fileData, xmain, ymain, listener, wire, recv, rfile, faulted>>

\* net.Dial("tcp", host+":9000") succeeds: Y listens, the connection waits
\* in the listener's queue
SendDialOK(k) ==
    /\ xmain = "run" /\ send[k].pc = "dial"
    /\ send[k].peer = "Y" /\ listener = "open"
    /\ send' = [send EXCEPT ![k].pc = "open"]
    /\ wire' = [wire EXCEPT ![k].state = "est"]
    /\ recv' = [recv EXCEPT ![k].pc = "queued"]
    /\ UNCHANGED <<dvars, nvars, m, fileData, xmain, ymain, listener, rfile, faulted>>

\* net.Dial fails: nothing listens on the host's port 9000, or the network
\* does not reach it
SendDialFail(k) ==
    /\ xmain = "run" /\ send[k].pc = "dial"
    /\ send' = [send EXCEPT ![k].pc = "failed"]
    /\ faulted' = faulted \cup {k}
    /\ UNCHANGED <<dvars, nvars, m, fileData, xmain, ymain, listener, wire, recv, rfile>>

\* os.Open(filename) succeeds
SendOpenOK(k) ==
    /\ xmain = "run" /\ send[k].pc = "open"
    /\ send' = [send EXCEPT ![k].pc = "copy"]
    /\ UNCHANGED <<dvars, nvars, m, fileData, xmain, ymain, listener, wire, recv, rfile, faulted>>

\* os.Open(filename) fails: return, the deferred conn.Close() runs
SendOpenFail(k) ==
    /\ xmain = "run" /\ send[k].pc = "open"
    /\ send' = [send EXCEPT ![k].pc = "failed"]
    /\ wire' = [wire EXCEPT ![k].state = IF @ = "est" THEN "fin" ELSE @]
    /\ faulted' = faulted \cup {k}
    /\ UNCHANGED <<dvars, nvars, m, fileData, xmain, ymain, listener, recv, rfile>>

\* io.Copy(conn, file): one chunk read from the file and written to the
\* connection
SendCopy(k) ==
    /\ xmain = "run" /\ send[k].pc = "copy"
    /\ send[k].pos < Len(fileData[send[k].file])
    /\ wire[k].state = "est"
    /\ wire' = [wire EXCEPT ![k].data =
                    Append(@, NextChunk(fileData[send[k].file], send[k].pos))]
    /\ send' = [send EXCEPT ![k].pos = @ + 1]
    /\ UNCHANGED <<dvars, nvars, m, fileData, xmain, ymain, listener, recv, rfile, faulted>>

\* io.Copy: a chunk written to a connection the peer has closed or the
\* network has reset is dropped; the write may still return without error
SendCopyLost(k) ==
    /\ xmain = "run" /\ send[k].pc = "copy"
    /\ send[k].pos < Len(fileData[send[k].file])
    /\ wire[k].state \in {"rst", "rclosed"}
    /\ send' = [send EXCEPT ![k].pos = @ + 1]
    /\ UNCHANGED <<dvars, nvars, m, fileData, xmain, ymain, listener, wire, recv, rfile, faulted>>

\* io.Copy returns a write error: return, the deferred closes run
SendWriteErr(k) ==
    /\ xmain = "run" /\ send[k].pc = "copy"
    /\ send[k].pos < Len(fileData[send[k].file])
    /\ wire[k].state \in {"rst", "rclosed"}
    /\ send' = [send EXCEPT ![k].pc = "failed"]
    /\ UNCHANGED <<dvars, nvars, m, fileData, xmain, ymain, listener, wire, recv, rfile, faulted>>

\* io.Copy returns a read error of the source file: return, the deferred
\* conn.Close() runs
SendReadErr(k) ==
    /\ xmain = "run" /\ send[k].pc = "copy"
    /\ send' = [send EXCEPT ![k].pc = "failed"]
    /\ wire' = [wire EXCEPT ![k].state = IF @ = "est" THEN "fin" ELSE @]
    /\ faulted' = faulted \cup {k}
    /\ UNCHANGED <<dvars, nvars, m, fileData, xmain, ymain, listener, recv, rfile>>

\* io.Copy returns nil at the end of the file: "File sent successfully!",
\* the deferred conn.Close() runs
SendDone(k) ==
    /\ xmain = "run" /\ send[k].pc = "copy"
    /\ send[k].pos = Len(fileData[send[k].file])
    /\ send' = [send EXCEPT ![k].pc = "sent"]
    /\ wire' = [wire EXCEPT ![k].state = IF @ = "est" THEN "fin" ELSE @]
    /\ UNCHANGED <<dvars, nvars, m, fileData, xmain, ymain, listener, recv, rfile, faulted>>

\* the network resets the connection; what was in flight is lost
NetReset(k) ==
    /\ wire[k].state \in {"est", "fin"}
    /\ recv[k].pc \in {"queued", "create", "copy"}
    /\ wire' = [wire EXCEPT ![k] = [state |-> "rst", data |-> <<>>]]
    /\ faulted' = faulted \cup {k}
    /\ UNCHANGED <<dvars, nvars, m, fileData, xmain, ymain, listener, send, recv, rfile>>

\* Y's user quits the UI: p.Run() returns nil and main goes on to
\* go startServer()
YQuit ==
    /\ ymain = "run"
    /\ ymain' = "tail"
    /\ listener' = "starting"
    /\ UNCHANGED <<dvars, nvars, m, fileData, xmain, send, wire, recv, rfile, faulted>>

\* Y's p.Run() returns an error: os.Exit(1)
YRunError ==
    /\ ymain = "run"
    /\ ymain' = "exited"
    /\ UNCHANGED <<dvars, nvars, m, fileData, xmain, listener, send, wire, recv, rfile, faulted>>

\* Y's main returns after go startServer(): the process ends with its
\* goroutines, the kernel resets the connections
YExit ==
    /\ ymain = "tail"
    /\ ymain' = "exited"
    /\ listener' = IF listener = "open" THEN "closed" ELSE listener
    /\ recv' = [k \in Sessions |-> IF recv[k].pc \in {"queued", "create", "copy"}
                                   THEN [recv[k] EXCEPT !.pc = "killed"] ELSE recv[k]]
    /\ wire' = [k \in Sessions |-> IF recv[k].pc \in {"queued", "create", "copy"}
                                   THEN [state |-> "rst", data |-> <<>>] ELSE wire[k]]
    /\ faulted' = faulted \cup {k \in Sessions : recv[k].pc \in {"queued", "create", "copy"}}
    /\ UNCHANGED <<dvars, nvars, m, fileData, xmain, send, rfile>>

\* startServer: net.Listen("tcp", ":9000") succeeds
SrvListenOK ==
    /\ ymain = "tail" /\ listener = "starting"
    /\ listener' = "open"
    /\ UNCHANGED <<dvars, nvars, m, fileData, xmain, ymain, send, wire, recv, rfile, faulted>>

\* startServer: net.Listen fails, "Error starting TCP server", return
SrvListenFail ==
    /\ ymain = "tail" /\ listener = "starting"
    /\ listener' = "failed"
    /\ UNCHANGED <<dvars, nvars, m, fileData, xmain, ymain, send, wire, recv, rfile, faulted>>

\* startServer: conn, err := listener.Accept(); go receiveFile(conn)
Accept(k) ==
    /\ ymain = "tail" /\ listener = "open"
    /\ recv[k].pc = "queued"
    /\ recv' = [recv EXCEPT ![k].pc = "create"]
    /\ UNCHANGED <<dvars, nvars, m, fileData, xmain, ymain, listener, send, wire, rfile, faulted>>

\* receiveFile: os.Create("received_file") succeeds and truncates the file
RecvCreateOK(k) ==
    /\ ymain = "tail" /\ recv[k].pc = "create"
    /\ recv' = [recv EXCEPT ![k].pc = "copy"]
    /\ rfile' = <<>>
    /\ UNCHANGED <<dvars, nvars, m, fileData, xmain, ymain, listener, send, wire, faulted>>

\* receiveFile: os.Create fails: return, the deferred conn.Close() runs
RecvCreateFail(k) ==
    /\ ymain = "tail" /\ recv[k].pc = "create"
    /\ recv' = [recv EXCEPT ![k].pc = "failed"]
    /\ wire' = [wire EXCEPT ![k] = [state |-> "rclosed", data |-> <<>>]]
    /\ faulted' = faulted \cup {k}
    /\ UNCHANGED <<dvars, nvars, m, fileData, xmain, ymain, listener, send, rfile>>

\* receiveFile, io.Copy(file, conn): one chunk read from the connection and
\* written to the file at the descriptor's offset
RecvCopy(k) ==
    /\ ymain = "tail" /\ recv[k].pc = "copy"
    /\ wire[k].state \in {"est", "fin"} /\ wire[k].data # <<>>
    /\ rfile' = WriteAt(rfile, recv[k].off, Head(wire[k].data))
    /\ recv' = [recv EXCEPT ![k].off = @ + 1]
    /\ wire' = [wire EXCEPT ![k].data = Tail(@)]
    /\ UNCHANGED <<dvars, nvars, m, fileData, xmain, ymain, listener, send, faulted>>

\* receiveFile, io.Copy: conn.Read returns io.EOF, the sender's side is
\* closed and nothing is left to read: io.Copy returns nil,
\* "File received successfully!"
RecvEOF(k) ==
    /\ ymain = "tail" /\ recv[k].pc = "copy"
    /\ wire[k].state = "fin" /\ wire[k].data = <<>>
    /\ recv' = [recv EXCEPT ![k].pc = "received"]
    /\ UNCHANGED <<dvars, nvars, m, fileData, xmain, ymain, listener, send, wire, rfile, faulted>>

\* receiveFile, io.Copy returns an error (connection reset, or the write to
\* the file fails): "Error receiving file", return
RecvError(k) ==
    /\ ymain = "tail" /\ recv[k].pc = "copy"
    /\ \/ /\ wire[k].state = "rst"
          /\ UNCHANGED <<wire, faulted>>
       \/ /\ wire[k].state \in {"est", "fin"} /\ wire[k].data # <<>>
          /\ wire' = [wire EXCEPT ![k] = [state |-> "rclosed", data |-> <<>>]]
          /\ faulted' = faulted \cup {k}
    /\ recv' = [recv EXCEPT ![k].pc = "failed"]
    /\ UNCHANGED <<dvars, nvars, m, fileData, xmain, ymain, listener, send, rfile>>

TNext ==
    \/ \E key \in Keys : Key(key)
    \/ KeyEnterSend
    \/ XQuit
    \/ YQuit \/ YRunError \/ YExit \/ SrvListenOK \/ SrvListenFail
    \/ \E k \in Sessions :
        \/ SendSplit(k) \/ SendDialOK(k) \/ SendDialFail(k)
        \/ SendOpenOK(k) \/ SendOpenFail(k)
        \/ SendCopy(k) \/ SendCopyLost(k) \/ SendWriteErr(k) \/ SendReadErr(k)
        \/ SendDone(k) \/ NetReset(k)
        \/ Accept(k) \/ RecvCreateOK(k) \/ RecvCreateFail(k)
        \/ RecvCopy(k) \/ RecvEOF(k) \/ RecvError(k)

SpecTransfer == TInit /\ [][TNext]_vars

----------------------------------------------------------------------------
(* The menu as a handler of messages: Update of either program on host X *)

\* p2pshare.go Update, case "↓"
P2pKeyDown(mm) ==
    IF mm.stage = "peers" /\ mm.selectedPeer < Len(mm.peers) - 1
    THEN [mm EXCEPT !.selectedPeer = @ + 1]
    ELSE IF mm.stage = "files" /\ mm.selectedFile < Len(mm.files) - 1
    THEN [mm EXCEPT !.selectedFile = @ + 1]
    ELSE mm

\* p2pshare.go Update, case "↑"
P2pKeyUp(mm) ==
    IF mm.stage = "peers" /\ mm.selectedPeer > 0
    THEN [mm EXCEPT !.selectedPeer = @ - 1]
    ELSE IF mm.stage = "files" /\ mm.selectedFile > 0
    THEN [mm EXCEPT !.selectedFile = @ - 1]
    ELSE mm

\* p2pshare.go Update, case "enter", first branch
P2pKeyEnter(mm) ==
    IF mm.stage = "peers" /\ Len(mm.peers) > 0
    THEN [mm EXCEPT !.status = <<"Select a file to send">>, !.stage = "files"]
    ELSE mm

\* p2pshare.go Update, case "enter", second branch: the status of a send
P2pSendStatus(mm) ==
    [mm EXCEPT !.status = <<"Sending file: ", mm.files[mm.selectedFile + 1],
                            " to ", mm.peers[mm.selectedPeer + 1]>>]

\* Update of program v, case tea.KeyMsg, for a key that starts no send
UpdateKey(v, mm, key) ==
    IF v = "main"
    THEN CASE key = "down" -> UpdateKeyDown(mm)
           [] key = "up" -> UpdateKeyUp(mm)
           [] key = "enter" -> UpdateKeyEnter(mm)
    ELSE CASE key = "down" -> P2pKeyDown(mm)
           [] key = "up" -> P2pKeyUp(mm)
           [] key = "enter" -> P2pKeyEnter(mm)

\* what getFiles() may have found
MenuFiles == {<<>>, <<"f1">>, <<"f1", "f2">>}

\* what a discoverPeers may return
MenuResults == {<<>>, <<"Y">>, <<"Z", "Y">>, <<ErrBind>>}

\* X's program has started and shows its menu; nothing else has happened
MenuInit ==
    /\ variant \in {v \in [Inst -> Variants] : v["Y"] = "main"}
    /\ proc = [i \in Inst |-> IF i = "X" THEN "running" ELSE "off"]
    /\ dpc = [i \in Inst |-> "idle"]
    /\ conn = [i \in Inst |-> "none"]
    /\ buf = [i \in Inst |-> {}]
    /\ peersMap = [i \in Inst |-> EmptyMap]
    /\ peerList = [i \in Inst |-> <<>>]
    /\ gpc = [i \in Inst |-> "none"]
    /\ \E files \in MenuFiles :
          m = [i \in Inst |-> IF i = "X" THEN initialModel(files) ELSE initialModel(<<>>)]
    /\ probesSent = [i \in Inst |-> 0]
    /\ heard = [i \in Inst |-> [a \in Addr |-> 0]]
    /\ quiet = [i \in Inst |-> 0]
    /\ noiseSent = 0
    /\ TransferIdle
    /\ MonitorStarted

\* Update handles a key that starts no send
MenuKey(key) ==
    /\ xmain = "run" /\ proc["X"] = "running"
    /\ ~(key = "enter" /\ StartsSend(m["X"]))
    /\ m' = [m EXCEPT !["X"] = UpdateKey(variant["X"], @, key)]
    /\ m' # m
    /\ UNCHANGED <<dvars, tvars, nvars>>

\* Update handles a result of discoverPeers
MenuResult(msg) ==
    /\ xmain = "run" /\ proc["X"] = "running"
    /\ m' = [m EXCEPT !["X"] = UpdatePeers(variant["X"], @, msg)]
    /\ UNCHANGED <<dvars, tvars, nvars>>

\* p2pshare.go: Enter in the file stage, go sendFile(...), which prints
P2pEnterSend ==
    /\ xmain = "run" /\ proc["X"] = "running"
    /\ variant["X"] = "p2pshare"
    /\ StartsSend(m["X"])
    /\ IndicesInRange(m["X"])
    /\ m' = [m EXCEPT !["X"] = P2pSendStatus(@)]
    /\ UNCHANGED <<dvars, tvars, nvars>>

\* Enter in the file stage with an index out of range: m.peers[m.selectedPeer]
\* panics, the program dies
EnterPanic ==
    /\ xmain = "run" /\ proc["X"] = "running"
    /\ StartsSend(m["X"])
    /\ ~IndicesInRange(m["X"])
    /\ proc' = [proc EXCEPT !["X"] = "crashed"]
    /\ xmain' = "exited"
    /\ UNCHANGED <<variant, dpc, conn, buf, peersMap, peerList, gpc, m, probesSent,
                   heard, quiet, noiseSent, fileData, ymain, listener, send, wire,
                   recv, rfile, faulted, nvars>>

MenuNext ==
    \/ \E key \in Keys : MenuKey(key)
    \/ \E msg \in MenuResults : MenuResult(msg)
    \/ KeyEnterSend
    \/ P2pEnterSend
    \/ EnterPanic

SpecMenu == MenuInit /\ [][MenuNext]_vars

----------------------------------------------------------------------------
(* The network monitor: Model.Update *)

\* net.Interfaces()
HostInterfaces == <<"eth0">>

\* psnet.IOCounters(true): one record of cumulative counters per interface
IOCounters ==
    <<[Name |-> "eth0", BytesSent |-> counters.BytesSent,
       BytesRecv |-> counters.BytesRecv]>>

\* for _, stat := range m.networkStats { totalSent += stat.BytesSent }
RECURSIVE TotalSent(_)
TotalSent(stats) ==
    IF stats = <<>> THEN 0 ELSE Head(stats).BytesSent + TotalSent(Tail(stats))

\* for _, stat := range m.networkStats { totalRecv += stat.BytesRecv }
RECURSIVE TotalRecv(_)
TotalRecv(stats) ==
    IF stats = <<>> THEN 0 ELSE Head(stats).BytesRecv + TotalRecv(Tail(stats))

\* a history that gives up its newest point when it is over the limit
TrimNewest(h, over) == IF over THEN SubSeq(h, 1, Len(h) - 1) ELSE h

\* m.historySent = m.historySent[1:] when the history is over the limit
Trim(h, over) == IF over THEN Tail(h) ELSE h

\* Update, case interfacesMsg
UpdateInterfaces(mm, msg) == [mm EXCEPT !.interfaces = msg, !.lastUpdate = "set"]

\* Update, case networkStatsMsg; float64 holds every total the model draws
\* exactly
UpdateStats(mm, msg) ==
    LET hs == Append(mm.historySent, TotalSent(msg))
        hr == Append(mm.historyRecv, TotalRecv(msg))
        over == Len(hs) > HistoryLimit
    IN [mm EXCEPT !.networkStats = msg,
                  !.latestSent = TotalSent(msg),
                  !.latestRecv = TotalRecv(msg),
                  !.historySent = Trim(hs, over),
                  !.historyRecv = Trim(hr, over)]

\* the host's interface sends or receives a byte
Traffic ==
    /\ mstate = "run"
    /\ counters.BytesSent + counters.BytesRecv < MaxTraffic
    /\ \E f \in {"BytesSent", "BytesRecv"} : counters' = [counters EXCEPT ![f] = @ + 1]
    /\ UNCHANGED <<dvars, m, tvars, monitor, mstate, fetchIf, fetchStats, timers, arrivals>>

\* a fetchInterfaces command ends with interfacesMsg and Update handles it:
\* return m, tickCmd(); the timers are counted up to MaxPending, which
\* stands for that many or more
HandleInterfacesMsg ==
    /\ mstate = "run" /\ fetchIf > 0
    /\ fetchIf' = fetchIf - 1
    /\ monitor' = UpdateInterfaces(monitor, HostInterfaces)
    /\ timers' = IF timers < MaxPending THEN timers + 1 ELSE MaxPending
    /\ UNCHANGED <<dvars, m, tvars, mstate, counters, fetchStats, arrivals>>

\* a fetchNetworkStats command ends with networkStatsMsg and Update handles
\* it: return m, nil
HandleStatsMsg ==
    /\ mstate = "run" /\ fetchStats > 0
    /\ Len(arrivals) < HistoryLimit + MaxDropped
    /\ fetchStats' = fetchStats - 1
    /\ monitor' = UpdateStats(monitor, IOCounters)
    /\ arrivals' = Append(arrivals, [sent |-> TotalSent(IOCounters),
                                     recv |-> TotalRecv(IOCounters)])
    /\ UNCHANGED <<dvars, m, tvars, mstate, counters, fetchIf, timers>>

\* a fetch ends with errMsg and Update handles it: m.err = msg.err,
\* return m, tea.Quit
HandleErrMsg ==
    /\ mstate = "run"
    /\ \/ fetchIf > 0 /\ fetchIf' = fetchIf - 1 /\ UNCHANGED fetchStats
       \/ fetchStats > 0 /\ fetchStats' = fetchStats - 1 /\ UNCHANGED fetchIf
    /\ monitor' = [monitor EXCEPT !.err = "err"]
    /\ mstate' = "quit"
    /\ UNCHANGED <<dvars, m, tvars, counters, timers, arrivals>>

\* a timer fires and Update handles its TickMsg:
\* return m, tea.Batch(fetchInterfaces, fetchNetworkStats, tickCmd()); the
\* timer that fired is replaced by a new one
HandleTickMsg ==
    /\ mstate = "run" /\ timers > 0
    /\ fetchIf < MaxPending /\ fetchStats < MaxPending
    /\ fetchIf' = fetchIf + 1
    /\ fetchStats' = fetchStats + 1
    /\ UNCHANGED <<dvars, m, tvars, monitor, mstate, counters, timers, arrivals>>

\* Update, case tea.KeyMsg "ctrl+c", "q": return m, tea.Quit
HandleQuitKey ==
    /\ mstate = "run"
    /\ mstate' = "quit"
    /\ UNCHANGED <<dvars, m, tvars, monitor, counters, fetchIf, fetchStats, timers, arrivals>>

\* the monitor alone on its host: the peer-to-peer programs are not started
MInit ==
    /\ Init
    /\ variant = [i \in Inst |-> "main"]

MNext ==
    \/ Traffic
    \/ HandleInterfacesMsg
    \/ HandleStatsMsg
    \/ HandleErrMsg
    \/ HandleTickMsg
    \/ HandleQuitKey

SpecMonitor == MInit /\ [][MNext]_vars

----------------------------------------------------------------------------
(* The network monitor: the claims *)

\* the last n elements of a sequence, all of it when it is shorter
LastN(f, n) == IF Len(f) <= n THEN f ELSE SubSeq(f, Len(f) - n + 1, Len(f))

\* C18: after any sequence of messages, historySent and historyRecv have
\* the same length, at most 20, and hold the totals of the most recent
\* networkStatsMsg in the order they arrived, the latest totals last.
C18_HistoryHoldsLatestTwenty ==
    /\ Len(monitor.historySent) = Len(monitor.historyRecv)
    /\ Len(monitor.historySent) <= 20
    /\ monitor.historySent = [k \in 1..Len(LastN(arrivals, 20)) |-> LastN(arrivals, 20)[k].sent]
    /\ monitor.historyRecv = [k \in 1..Len(LastN(arrivals, 20)) |-> LastN(arrivals, 20)[k].recv]
    /\ arrivals # <<>> =>
          /\ monitor.latestSent = arrivals[Len(arrivals)].sent
          /\ monitor.latestRecv = arrivals[Len(arrivals)].recv

C18_Witness ==
    /\ Len(arrivals) = 21
    /\ Len(monitor.historySent) = 20
    /\ arrivals[1].sent # arrivals[2].sent
    /\ monitor.historySent[1] = arrivals[2].sent
    /\ monitor.historyRecv[20] # monitor.historyRecv[19]

\* C20: at most one tick timer is outstanding at any time.
C20_OneTimerOutstanding ==
    timers <= 1

----------------------------------------------------------------------------
(* Transfer: the claims *)

\* receiveFile has returned
Returned(k) == recv[k].pc \in {"received", "failed"}

\* no receiveFile but that of session k has created or written the file
SoleReceiver(k) == \A j \in Sessions \ {k} : recv[j].pc \in {"none", "queued"}

\* C1: a receiveFile whose connection is closed before the whole file has
\* come through never ends with success: a session that ends "File received
\* successfully!" has written as many bytes as the source file holds.
C1_ClosedEarlyIsFailure ==
    \A k \in Sessions :
        recv[k].pc = "received" => recv[k].off = Len(fileData[send[k].file])

\* C2: for every content of the source file, when sendFile has run to its
\* end with no fault in the session and receiveFile has returned, sendFile
\* has written as many bytes as the file holds and reported success,
\* receiveFile has reported success and written as many bytes, and the file
\* it wrote (no other session having touched it) holds the bytes of the
\* source file in their order.
C2_TransferByteIdentical ==
    \A k \in Sessions :
        /\ (send[k].pc = "sent" /\ k \notin faulted) =>
              send[k].pos = Len(fileData[send[k].file])
        /\ (send[k].pc = "sent" /\ k \notin faulted /\ Returned(k)) =>
              /\ recv[k].pc = "received"
              /\ recv[k].off = Len(fileData[send[k].file])
              /\ SoleReceiver(k) => rfile = fileData[send[k].file]

C2_Witness ==
    \E k \in Sessions :
        /\ send[k].pc = "sent" /\ k \notin faulted /\ recv[k].pc = "received"
        /\ SoleReceiver(k)
        /\ Len(rfile) = 2 /\ rfile[1] # rfile[2]
        /\ rfile = fileData[send[k].file]

\* C3: at most one sendFile is between its start and its return at any time.
C3_AtMostOneSending ==
    Cardinality({k \in Sessions : Sending(k)}) <= 1

\* C11: for as long as Y's interactive program runs, startServer listens
\* on the data port: whenever a sendFile of X is about to dial Y while Y's
\* p.Run() is running, Y's listener is open.
C11_ReceivingAlwaysAvailable ==
    (ymain = "run" /\ \E k \in Sessions : send[k].pc = "dial" /\ send[k].peer = "Y")
        => listener = "open"

\* the first n elements of a sequence, all of it when it is shorter
Prefix(f, n) == SubSeq(f, 1, IF n < Len(f) THEN n ELSE Len(f))

\* C12: receiving sessions do not touch each other's destination: while a
\* receiveFile is copying, the file it writes holds the bytes it has written
\* so far, which are the first bytes of the file its sender reads; no other
\* session has truncated or overwritten them.
C12_ReceiveSessionsIndependent ==
    \A k \in Sessions :
        recv[k].pc = "copy" =>
            /\ Len(rfile) >= recv[k].off
            /\ Prefix(rfile, recv[k].off) = Prefix(fileData[send[k].file], recv[k].off)

\* C17: a sending session has one outcome, shared by both ends: sendFile
\* reports success only at the end of the file, and a session whose sendFile
\* has failed (the source file could not be opened or read) is not recorded
\* as received by the peer.
C17_FailedSendNotReceived ==
    \A k \in Sessions :
        /\ send[k].pc = "sent" => send[k].pos = Len(fileData[send[k].file])
        /\ send[k].pc = "failed" => recv[k].pc # "received"

----------------------------------------------------------------------------
(* Discovery: the claims *)

IsError(list) == list \in {<<ErrBind>>, <<ErrBcast>>}

\* C4: in the snapshot discoverPeers builds and in the peers list Update keeps,
\* no address appears twice, however many datagrams upserted it, and every
\* sender upserted before the snapshot loop began is in the snapshot.
C4_SnapshotHoldsEachPeerOnce ==
    \A i \in Inst :
        /\ NoDup(peerList[i])
        /\ NoDup(m[i].peers)
        /\ dpc[i] \in {"iter", "ret", "done"} /\ ~IsError(peerList[i]) =>
                \A a \in Addr : heard[i][a] > 0 => Occurs(peerList[i], a) = 1

\* host X, running main.go, took two "PEER_RESPONSE" of Z during its window
\* and handed the snapshot to Update
C4_Witness ==
    /\ variant["X"] = "main" /\ dpc["X"] = "done"
    /\ heard["X"][Foreign] >= 2
    /\ Occurs(m["X"].peers, Foreign) = 1

\* C5: a peer from which nothing was received for longer than the window is
\* evicted: two windows after the last datagram could be received, the
\* model's peers list holds no address.
C5_StalePeerEvicted ==
    \A i \in Inst : quiet[i] >= 2 => Range(m[i].peers) \cap Addr = {}

\* C6: when X and Y have both run discovery without a socket error, in
\* whatever order, each holds the other's address.
C6_MutualDiscovery ==
    (\A i \in Inst : dpc[i] = "done" /\ ~IsError(peerList[i])) =>
        /\ "Y" \in Range(m["X"].peers)
        /\ "X" \in Range(m["Y"].peers)

\* C7: a running host whose discovery met no socket error answers every
\* "DISCOVER_PEER" of another host: a probe that leaves its receive buffer is
\* answered to the sender in that step, and a probe broadcast after it has
\* produced its peer list still reaches its socket.
C7_EveryProbeAnswered ==
    [][\A i \in Inst : \A s \in Inst \ {i} :
        LET probe == [src |-> s, payload |-> DISCOVER_PEER]
            response == [src |-> i, payload |-> PEER_RESPONSE] IN
        /\ (/\ probe \in buf[i] /\ probe \notin buf'[i]
            /\ proc'[i] = "running" /\ ~IsError(peerList'[i])
            /\ proc'[s] = "running" /\ conn'[s] = "open") => response \in buf'[s]
        /\ (/\ probesSent'[s] > probesSent[s]
            /\ proc[i] = "running" /\ dpc[i] \in {"ret", "done"}
            /\ ~IsError(peerList[i])) => probe \in buf'[i]
      ]_vars

\* C8: a host never answers its own broadcast and never holds its own address.
C8_SelfNeverPeer ==
    \A i \in Inst :
        /\ [src |-> i, payload |-> PEER_RESPONSE] \notin buf[i]
        /\ peersMap[i][i] = 0
        /\ i \notin Range(m[i].peers)

\* C9: the peer set changes only in a step that takes a "PEER_RESPONSE" from
\* the receive buffer, and a step that takes only a payload that is neither
\* tag sends no "PEER_RESPONSE".
C9_OnlyResponsesInsert ==
    [][\A i \in Inst :
        LET taken == buf[i] \ buf'[i] IN
        /\ peersMap'[i] # peersMap[i] =>
              \E d \in taken : d.payload = PEER_RESPONSE
        /\ (taken # {} /\ \A d \in taken : d.payload \notin {DISCOVER_PEER, PEER_RESPONSE}) =>
              \A j \in Inst : \A d \in buf'[j] \ buf[j] : d.payload # PEER_RESPONSE
      ]_vars

\* C10: probing goes on: a running host that sent its first probe and saw a
\* full window pass after its discoverPeers returned has sent a second one.
C10_ProbingRepeats ==
    \A i \in Inst :
        (proc[i] = "running" /\ probesSent[i] >= 1 /\ quiet[i] >= 1) => probesSent[i] >= 2

\* C13: the peer map is never written while the snapshot loop ranges over
\* it: no step of the collector goroutine changes the map of a discoverPeers
\* that is inside its loop `for peer := range peers', and no process dies of
\* a concurrent map iteration and map write.
C13_SnapshotNeverRacesCollector ==
    [][\A i \in Inst :
        /\ (dpc[i] = "iter" /\ dpc'[i] = "iter") => peersMap'[i] = peersMap[i]
        /\ proc'[i] # "crashed"
      ]_vars

\* C14: a failed bind of the discovery port is shown as a failure: once the
\* result of such a discoverPeers has been handled by Update, the model's
\* peer list is empty, holds no error text, and the status does not say that
\* peers were found.
C14_BindFailureIsFailure ==
    \A i \in Inst :
        (dpc[i] = "done" /\ peerList[i] = <<ErrBind>>) =>
            /\ m[i].peers = <<>>
            /\ ErrBind \notin Range(m[i].peers)
            /\ m[i].status # <<"Peers found! Select one.">>

\* C15: a failed broadcast does not stop listening: a running instance whose
\* discoverPeers has reported the broadcast failure still has its discovery
\* socket open.
C15_BroadcastFailureKeepsListening ==
    \A i \in Inst :
        (proc[i] = "running" /\ peerList[i] = <<ErrBcast>>) => conn[i] = "open"

\* C16: the discovery listen loop ends once discovery has ended: when
\* discoverPeers has returned, its socket is closed and a 2 s window has
\* passed, the goroutine that reads the socket is no longer running.
C16_ListenLoopTerminates ==
    \A i \in Inst :
        (proc[i] = "running" /\ dpc[i] = "done" /\ conn[i] = "closed" /\ quiet[i] >= 1)
            => gpc[i] # "run"

====
